---- MODULE Spec2Model ----
(***************************************************************************)
(* Deploy orchestration pipeline of netlify-golang-deploy: the site        *)
(* resolver (findSite), the directory walk (filesInDirectory), the deploy  *)
(* state poller (getDeploy), the upload job with its retry loop            *)
(* (wrapUploadJob) and the bounded worker pool of deploy().                *)
(*                                                                         *)
(* The repository holds the current program (src/unnamed/part_000) and     *)
(* three earlier programs concatenated in src/main.go; `variant` says      *)
(* which program runs: part_000, the second program of main.go (main_2,    *)
(* lines 262-598) or the third (main_3, lines 599-837).  The first program *)
(* of main.go (lines 1-261) is the third with a worker that panics on a    *)
(* job error.  Time is counted in seconds.                                 *)
(***************************************************************************)
EXTENDS Integers, Sequences, FiniteSets, Bags, TLC

VARIABLES
    variant,        \* which program of the repository runs
    cfgQueueSize,   \* cfg.QueueSize (0 in the program that has no such field)
    hostSep,        \* os.PathSeparator of the host
    flags,          \* the values of token, siteName and deployDir ("": none)
    listing,        \* the remote's sites: [n, match]
    fs,             \* contents of the files of cfg.Directory, in walk order
    changes,        \* modifications made to files by other processes
    pc,             \* position of the main goroutine
    exit,           \* "running", or how the process ended
    errMsg,         \* the message of the error that ended the run
    page,           \* findSite: page
    listCalls,      \* pages requested from ListSites, in order
    site,           \* the site findSite returned
    walkIdx,        \* filesInDirectory: file being visited
    filenameToSha,  \* path -> digest
    shaToFilename,  \* digest -> shaData
    walkErrs,       \* directories and files the walk could not open or read
    remote,         \* the remote's deploy record
    uploaded,       \* digests the remote has stored for this deploy
    created,        \* CreateSiteDeploy calls made
    createdReady,   \* the payload of CreateSiteDeploy had State "ready"
    wantedStatus,   \* getDeploy: wantedStatus
    snapshot,       \* getDeploy: payload of the last fetch
    preparedDeploy, \* deploy: preparedDeploy
    fetchErrs,      \* GetDeploy calls that returned an error
    jobChan,        \* jobChan: buffered jobs
    closed,         \* jobChan has been closed
    wg,             \* WaitGroup counter
    nextReq,        \* index into preparedDeploy.Required of the producer loop
    wpc,            \* position of each worker goroutine
    wjob,           \* the job each worker is executing
    retry,          \* per job: retry.Do / backoff state
    executed,       \* bag of the jobs workers have dequeued
    jobErrs,        \* number of jobs that returned an error
    openFiles       \* files opened by os.Open and not closed since

cfgVars    == <<variant, cfgQueueSize, hostSep, flags, listing>>
fsVars     == <<fs, changes>>
mainVars   == <<pc, exit, errMsg>>
siteVars   == <<page, listCalls, site>>
walkVars   == <<walkIdx, filenameToSha, shaToFilename, walkErrs>>
remoteVars == <<remote, uploaded, created, createdReady>>
pollVars   == <<wantedStatus, snapshot, preparedDeploy, fetchErrs>>
poolVars   == <<jobChan, closed, wg, nextReq>>
workerVars == <<wpc, wjob, retry, executed, jobErrs, openFiles>>
vars == <<cfgVars, fsVars, mainVars, siteVars, walkVars, remoteVars, pollVars,
          poolVars, workerVars>>

----------------------------------------------------------------------------
(* Bounds of the model *)

\* pages findSite may request in a program that never stops on an empty page
MaxPage == 4
\* modifications other processes make to the directory during the walk
MaxChanges == 1

(* Program constants *)

PerPage == 25
FirstPage == 1
BackoffBase == 5
MaxDuration == 90
FixedQueueSize == 5

----------------------------------------------------------------------------
(* The programs of the repository and where they differ *)

Variants == {"part_000", "main_2", "main_3"}

\* findSite returns nil, nil on an empty page
HasEmptyPageCheck(v) == v = "part_000"
\* the upload call is wrapped in retry.Do
HasRetry(v) == v = "part_000"
\* the worker drops the error job() returns
IgnoresJobError(v) == v = "main_3"
\* errors of the main goroutine are panics, not returned errors
PanicsOnError(v) == v = "main_3"
\* the number of workers and the channel capacity
QueueSize == IF variant = "main_3" THEN FixedQueueSize ELSE cfgQueueSize

----------------------------------------------------------------------------
(* Inputs *)

SiteName == "mysite"
OtherName == "other"

\* what the command line and the environment give for the flags: all of
\* them, or all but one
GoodFlags ==
    [f \in {"token", "siteName", "deployDir"} |->
        CASE f = "token" -> "secret"
          [] f = "siteName" -> SiteName
          [] f = "deployDir" -> "public"]
FlagSets ==
    {GoodFlags} \cup
    {[GoodFlags EXCEPT ![f] = ""] : f \in {"token", "siteName", "deployDir"}}

\* the remote's sites: n sites, those at the positions in match are named
\* SiteName
Listings ==
    { [n |-> 0, match |-> {}],
      [n |-> 2, match |-> {1, 2}],
      [n |-> PerPage + 2, match |-> {PerPage + 1, PerPage + 2}],
      [n |-> PerPage + 2, match |-> {}] }

\* the files under cfg.Directory in walk order, each as its path components
FileNames == << <<"a.html">>, <<"css", "b.css">>, <<"js", "c.js">> >>
PathSeparators == {"/", "\\"}
Contents == {"X", "Y"}
Directories == { <<>>, <<"X">>, <<"X", "X">>, <<"X", "Y">> }
\* a directory of three files that differ, for a deploy that requires more
\* files than the pool holds at a time
LongDirectory == <<"X", "Y", "Z">>
PoolQueueSizes == {0, 1}
QueueSizes == {0, 1, 2}
AttemptTimes == {0, 60}
Outcomes == {"ok", "GOAWAY", "other"}

----------------------------------------------------------------------------
(* Helpers *)

Min(a, b) == IF a < b THEN a ELSE b
Range(f) == {f[x] : x \in DOMAIN f}
MapPut(m, k, v) == [x \in DOMAIN m \cup {k} |-> IF x = k THEN v ELSE m[x]]
EmptyMap == [x \in {} |-> ""]

NoSite == [id |-> 0, name |-> ""]
NoDeploy == [state |-> "", required |-> <<>>]
NoJob == [realfilename |-> "", uri |-> ""]

----------------------------------------------------------------------------
(* The process *)

Running == exit = "running"

\* An error of the main goroutine ends the run: returned to cli's app.Run and
\* log.Fatal (exit status 1), or a panic (exit status 2).
Fail(msg) ==
    /\ pc' = "exited"
    /\ exit' = IF PanicsOnError(variant) THEN "panic" ELSE "error"
    /\ errMsg' = msg

\* A panic of the main goroutine: the process aborts with exit status 2.
Panic(msg) ==
    /\ pc' = "exited"
    /\ exit' = "panic"
    /\ errMsg' = msg

----------------------------------------------------------------------------
(* Configuration: the flags of cli.App, the environment in the third       *)
(* program of main.go                                                      *)

\* Required: true of the cli flags; the third program of main.go checks
\* len(cfg.Token) == 0 and nothing else
RequiredFlags(v) ==
    IF PanicsOnError(v) THEN {"token"} ELSE {"token", "siteName"}

\* app.Run(os.Args) checks the required flags before it calls deploy().
AppRun ==
    /\ Running /\ pc = "flags"
    /\ IF \E f \in RequiredFlags(variant) : flags[f] = ""
       THEN Fail(IF PanicsOnError(variant) THEN "Auth token is required"
                 ELSE "Required flag not set")
       ELSE /\ pc' = "findSite"
            /\ UNCHANGED <<exit, errMsg>>
    /\ UNCHANGED <<cfgVars, fsVars, siteVars, walkVars, remoteVars, pollVars,
                   poolVars, workerVars>>

----------------------------------------------------------------------------
(* Site resolver: findSite, and the check deploy() makes of its result *)

SiteAt(l, i) ==
    [id |-> i, name |-> IF i \in l.match THEN SiteName ELSE OtherName]

\* The payload of ListSites(page p, per_page perPage) on listing l
ListSitesPayload(l, p, perPage) ==
    LET first == (p - 1) * perPage
        cnt == IF l.n - first <= 0 THEN 0 ELSE Min(perPage, l.n - first)
    IN  [k \in 1..cnt |-> SiteAt(l, first + k)]

\* for _, site := range payload { if site.Name == siteName { return site } }
ScanMutLast(payload, name) ==
    LET hits == {k \in 1..Len(payload) : payload[k].name = name}
    IN  IF hits = {} THEN NoSite
        ELSE payload[CHOOSE k \in hits : \A j \in hits : j <= k]

ScanPage(payload, name) ==
    LET hits == {k \in 1..Len(payload) : payload[k].name = name}
    IN  IF hits = {} THEN NoSite
        ELSE payload[CHOOSE k \in hits : \A j \in hits : k <= j]

NextPage(p) == p + 1

\* deploy(): if site == nil
SiteMissingMutNever(s) == FALSE

SiteMissing(s) == s = NoSite

\* One iteration of findSite's loop; when findSite returns, the lines of
\* deploy() that look at what it returned.
FindSiteIter ==
    /\ Running /\ pc = "findSite"
    /\ page <= MaxPage
    /\ listCalls' = Append(listCalls, [page |-> page, per_page |-> PerPage])
    /\ \E err \in BOOLEAN :
         IF err
         THEN /\ Fail("Unable to find the site")
              /\ UNCHANGED <<page, site>>
         ELSE LET payload == ListSitesPayload(listing, page, PerPage)
                  found == ScanPage(payload, flags["siteName"])
              IN  IF HasEmptyPageCheck(variant) /\ Len(payload) = 0
                  THEN \* findSite returns nil, nil
                       IF SiteMissing(NoSite)
                       THEN /\ Fail("No site found")
                            /\ UNCHANGED <<page, site>>
                       ELSE /\ site' = NoSite
                            /\ pc' = "walkRoot"
                            /\ UNCHANGED <<page, exit, errMsg>>
                  ELSE IF found # NoSite
                  THEN /\ site' = found
                       /\ pc' = "walkRoot"
                       /\ UNCHANGED <<page, exit, errMsg>>
                  ELSE /\ page' = NextPage(page)
                       /\ UNCHANGED <<site, pc, exit, errMsg>>
    /\ UNCHANGED <<cfgVars, fsVars, walkVars, remoteVars, pollVars, poolVars,
                   workerVars>>

----------------------------------------------------------------------------
(* Fingerprinter: filesInDirectory and mustGetSha1 *)

\* SHA-1 of a file's bytes, lowercase hex (an injective stand-in)
Sha1(c) ==
    CASE c = "X" -> "11f6ad8e"
      [] c = "Y" -> "c032adc1"
      [] OTHER -> "3e7a90bf"

\* filepath.Join: the components with the host's separator between them
RECURSIVE JoinPath(_, _)
JoinPath(parts, sep) ==
    IF Len(parts) = 1 THEN Head(parts)
    ELSE Head(parts) \o sep \o JoinPath(Tail(parts), sep)

\* filepath.Rel(dir, path)
Rel(i) == JoinPath(FileNames[i], hostSep)
\* key = "/" + key
Key(i) == "/" \o Rel(i)
\* path, as filepath.Walk hands it to the callback
RealName(i) == JoinPath(<<flags["deployDir"]>> \o FileNames[i], hostSep)
FileIndex(name) == CHOOSE i \in 1..Len(FileNames) : RealName(i) = name

\* Another process rewrites a file while the walk runs.
ChangeFile ==
    /\ Running /\ pc \in {"walkFile", "walkFile2"}
    /\ changes < MaxChanges
    /\ \E i \in 1..Len(fs) : \E c \in Contents \ {fs[i]} :
         fs' = [fs EXCEPT ![i] = c]
    /\ changes' = changes + 1
    /\ UNCHANGED <<cfgVars, mainVars, siteVars, walkVars, remoteVars, pollVars,
                   poolVars, workerVars>>

\* filepath.Walk visits the root: a root that cannot be read (no directory
\* is named "") makes the callback return the error, and deploy() returns it.
WalkRoot ==
    /\ Running /\ pc = "walkRoot"
    /\ \E ok \in BOOLEAN :
         /\ flags["deployDir"] = "" => ~ok
         /\ walkErrs' = IF ok THEN walkErrs ELSE walkErrs + 1
         /\ IF ok
            THEN /\ pc' = "walkFile"
                 /\ walkIdx' = 1
                 /\ UNCHANGED <<exit, errMsg>>
            ELSE /\ Fail("Unable to walk directory")
                 /\ UNCHANGED walkIdx
    /\ UNCHANGED <<cfgVars, fsVars, siteVars, filenameToSha, shaToFilename,
                   remoteVars, pollVars, poolVars, workerVars>>

\* mustGetSha1: if err != nil { panic(...) } after os.Open and after io.Copy
HashFailedMutIgnored(readable) == FALSE

HashFailed(readable) == ~readable

\* filenameToSha[key] = mustGetSha1(path)
WalkHashForward ==
    /\ Running /\ pc = "walkFile" /\ walkIdx <= Len(fs)
    /\ \E readable \in BOOLEAN :
         /\ walkErrs' = IF readable THEN walkErrs ELSE walkErrs + 1
         /\ IF ~HashFailed(readable)
            THEN /\ filenameToSha' =
                       MapPut(filenameToSha, Key(walkIdx), Sha1(fs[walkIdx]))
                 /\ pc' = "walkFile2"
                 /\ UNCHANGED <<exit, errMsg>>
            ELSE /\ Panic("Unable to open file to sha it")
                 /\ UNCHANGED filenameToSha
    /\ UNCHANGED <<cfgVars, fsVars, siteVars, walkIdx, shaToFilename,
                   remoteVars, pollVars, poolVars, workerVars>>

\* shaToFilename[mustGetSha1(path)] = &shaData{realfilename: path, uri: key}
WalkHashReverse ==
    /\ Running /\ pc = "walkFile2"
    /\ \E readable \in BOOLEAN :
         /\ walkErrs' = IF readable THEN walkErrs ELSE walkErrs + 1
         /\ IF ~HashFailed(readable)
            THEN /\ shaToFilename' =
                       MapPut(shaToFilename, Sha1(fs[walkIdx]),
                              [realfilename |-> RealName(walkIdx),
                               uri |-> Key(walkIdx)])
                 /\ walkIdx' = walkIdx + 1
                 /\ pc' = "walkFile"
                 /\ UNCHANGED <<exit, errMsg>>
            ELSE /\ Panic("Unable to open file to sha it")
                 /\ UNCHANGED <<shaToFilename, walkIdx>>
    /\ UNCHANGED <<cfgVars, fsVars, siteVars, filenameToSha, remoteVars,
                   pollVars, poolVars, workerVars>>

\* filepath.Walk has visited every file: filesInDirectory returns.
WalkReturn ==
    /\ Running /\ pc = "walkFile" /\ walkIdx > Len(fs)
    /\ pc' = "createDeploy"
    /\ UNCHANGED <<exit, errMsg, cfgVars, fsVars, siteVars, walkVars,
                   remoteVars, pollVars, poolVars, workerVars>>

----------------------------------------------------------------------------
(* The remote's deploy record *)

DeployStates == <<"preparing", "prepared", "processing", "ready">>
Rank(s) == CHOOSE k \in 1..Len(DeployStates) : DeployStates[k] = s

\* the sequences without repetition over the set S
SeqsNoDup(S) ==
    {s \in UNION {[1..n -> S] : n \in 0..Cardinality(S)} :
        \A i, j \in 1..Len(s) : i # j => s[i] # s[j]}

\* the deploy has every file it asked for
AllStored(req, up) == \A k \in 1..Len(req) : req[k] \in up

\* The remote moves the deploy along its lifecycle; it leaves `prepared`
\* once it holds every required digest.
RemoteAdvance ==
    /\ Running /\ remote # NoDeploy
    /\ remote.state # "ready"
    /\ remote.state = "prepared" => AllStored(remote.required, uploaded)
    /\ remote' = [remote EXCEPT !.state = DeployStates[Rank(remote.state) + 1]]
    /\ UNCHANGED <<uploaded, created, createdReady, cfgVars, fsVars, mainVars,
                   siteVars, walkVars, pollVars, poolVars, workerVars>>

\* if deploy.GetPayload().State == "ready" { log.Print("Done deploying ...") }
\* has no return: deploy() goes on whatever the state
ReturnsAfterCreateMutReady(st) == st = "ready"

ReturnsAfterCreate(st) == FALSE

\* CreateSiteDeploy with the path -> digest map, and the lines of deploy()
\* up to the call of getDeploy(deployID, "prepared").
CreateDeploy ==
    /\ Running /\ pc = "createDeploy"
    /\ created' = IF site = NoSite THEN created ELSE created + 1
    /\ \E err \in BOOLEAN :
         IF site = NoSite
         THEN \* WithSiteID(site.ID) on a nil site: no request is made
              /\ ~err
              /\ Panic("nil pointer dereference")
              /\ UNCHANGED <<remote, wantedStatus, createdReady>>
         ELSE IF err
         THEN /\ Fail("Unable to create deploy")
              /\ UNCHANGED <<remote, wantedStatus, createdReady>>
         ELSE \E req \in SeqsNoDup(Range(filenameToSha)) :
              \E st \in Range(DeployStates) :
                 /\ Rank(st) > Rank("prepared") => req = <<>>
                 /\ remote' = [state |-> st, required |-> req]
                 /\ createdReady' = (st = "ready")
                 /\ IF ReturnsAfterCreate(st)
                    THEN /\ pc' = "exited"
                         /\ exit' = "ok"
                         /\ UNCHANGED <<errMsg, wantedStatus>>
                    ELSE /\ wantedStatus' = "prepared"
                         /\ pc' = "getDeploy"
                         /\ UNCHANGED <<exit, errMsg>>
    /\ UNCHANGED <<uploaded, snapshot, preparedDeploy, fetchErrs, cfgVars,
                   fsVars, siteVars, walkVars, poolVars, workerVars>>

----------------------------------------------------------------------------
(* Deploy state poller: getDeploy, and what deploy() does when it returns *)

\* if State == wantedStatus return; if State == "ready" return
PollDoneMutNoReady(state, wanted) == state = wanted

PollDone(state, wanted) == state = wanted \/ state = "ready"

\* if err != nil { return nil, errors.Wrap(err, "Unable to check deploy") }
FetchFailedMutIgnored(err) == FALSE

FetchFailed(err) == err

\* One fetch of getDeploy's loop.
GetDeployFetch ==
    /\ Running /\ pc = "getDeploy"
    /\ \E err \in BOOLEAN :
         /\ fetchErrs' = IF err THEN fetchErrs + 1 ELSE fetchErrs
         /\ IF FetchFailed(err)
            THEN /\ Fail(IF wantedStatus = "prepared" THEN "Unable to get deploy"
                         ELSE "finish deployment")
                 /\ UNCHANGED <<snapshot, preparedDeploy>>
            ELSE /\ snapshot' = remote
                 /\ IF ~PollDone(remote.state, wantedStatus)
                    THEN /\ pc' = "getDeploySleep"
                         /\ UNCHANGED <<exit, errMsg, preparedDeploy>>
                    ELSE IF wantedStatus = "prepared"
                    THEN /\ preparedDeploy' = remote
                         /\ pc' = "spawn"
                         /\ UNCHANGED <<exit, errMsg>>
                    ELSE /\ pc' = "exited"
                         /\ exit' = "ok"
                         /\ UNCHANGED <<errMsg, preparedDeploy>>
    /\ UNCHANGED <<wantedStatus, cfgVars, fsVars, siteVars, walkVars,
                   remoteVars, poolVars, workerVars>>

\* time.Sleep(1 * time.Second)
GetDeploySleep ==
    /\ Running /\ pc = "getDeploySleep"
    /\ pc' = "getDeploy"
    /\ UNCHANGED <<exit, errMsg, cfgVars, fsVars, siteVars, walkVars,
                   remoteVars, pollVars, poolVars, workerVars>>

----------------------------------------------------------------------------
(* Upload worker pool: the channel, the workers and the producer loop of   *)
(* deploy()                                                                *)

Workers == DOMAIN wpc
NewRetry == [attempts |-> 0, goaways |-> 0, last |-> "", elapsed |-> 0,
             slept |-> 0, prev |-> 0, cur |-> BackoffBase, sleep |-> 0,
             sent |-> ""]

\* for i := 0; i < QueueSize; i++ { wg.Add(1); go func() {...}() }
SpawnCountMutExtra(n) == n + 1

SpawnCount(n) == n

\* jobChan := make(chan uploadQueueAction, QueueSize) and the loop that
\* starts the workers.
Spawn ==
    /\ Running /\ pc = "spawn"
    /\ jobChan' = <<>>
    /\ closed' = FALSE
    /\ wg' = SpawnCount(QueueSize)
    /\ wpc' = [w \in 1..SpawnCount(QueueSize) |-> "recv"]
    /\ wjob' = [w \in 1..SpawnCount(QueueSize) |-> NoJob]
    /\ retry' = [w \in 1..SpawnCount(QueueSize) |-> NewRetry]
    /\ nextReq' = 1
    /\ pc' = "produce"
    /\ UNCHANGED <<exit, errMsg, executed, jobErrs, openFiles, cfgVars, fsVars,
                   siteVars, walkVars, remoteVars, pollVars>>

\* cfg.wrapUploadJob(deployID, shaToFilename[sha].realfilename,
\*                   shaToFilename[sha].uri)
WrapUploadJob(d) ==
    [realfilename |-> d.realfilename, uri |-> d.uri]

\* jobChan <- job blocks while the buffer holds QueueSize jobs
CanSendMutUnbounded(ch, cap) == TRUE

CanSend(ch, cap) == Len(ch) < cap

\* One iteration of the producer loop.  shaToFilename[sha] is nil for a
\* digest the walk did not record: reading its field is a nil dereference.
Produce ==
    /\ Running /\ pc = "produce"
    /\ nextReq <= Len(preparedDeploy.required)
    /\ LET sha == preparedDeploy.required[nextReq]
       IN  IF sha \notin DOMAIN shaToFilename
           THEN /\ Panic("nil pointer dereference")
                /\ UNCHANGED <<jobChan, nextReq>>
           ELSE /\ CanSend(jobChan, QueueSize)
                /\ jobChan' = Append(jobChan, WrapUploadJob(shaToFilename[sha]))
                /\ nextReq' = nextReq + 1
                /\ UNCHANGED <<pc, exit, errMsg>>
    /\ UNCHANGED <<closed, wg, cfgVars, fsVars, siteVars, walkVars, remoteVars,
                   pollVars, workerVars>>

\* close(jobChan)
CloseChan ==
    /\ Running /\ pc = "produce"
    /\ nextReq > Len(preparedDeploy.required)
    /\ closed' = TRUE
    /\ pc' = "wgWait"
    /\ UNCHANGED <<exit, errMsg, jobChan, wg, nextReq, cfgVars, fsVars,
                   siteVars, walkVars, remoteVars, pollVars, workerVars>>

WgDoneMutNoWait(n) == TRUE

WgDone(n) == n = 0

\* wg.Wait(), then the call of getDeploy(deployID, "ready")
WgWait ==
    /\ Running /\ pc = "wgWait"
    /\ WgDone(wg)
    /\ wantedStatus' = "ready"
    /\ pc' = "getDeploy"
    /\ UNCHANGED <<exit, errMsg, snapshot, preparedDeploy, fetchErrs, cfgVars,
                   fsVars,
                   siteVars, walkVars, remoteVars, poolVars, workerVars>>

\* job() returns: the worker holds its error (err := job()).
JobReturns(w, failed) ==
    /\ wpc' = [wpc EXCEPT ![w] = IF failed THEN "failed" ELSE "returned"]
    /\ jobErrs' = IF failed THEN jobErrs + 1 ELSE jobErrs

\* if err != nil { panic(err) }: the third program of main.go calls job()
\* and drops what it returns.
PanicsOnJobError(v) == ~IgnoresJobError(v)

\* What the worker does with what job() returned: loop on nil; on an error
\* panic(err): the deferred wg.Done() runs and the process aborts with exit
\* status 2.
WorkerCheck(w) ==
    /\ Running /\ wpc[w] \in {"returned", "failed"}
    /\ wjob' = [wjob EXCEPT ![w] = NoJob]
    /\ retry' = [retry EXCEPT ![w] = NewRetry]
    /\ IF wpc[w] = "failed" /\ PanicsOnJobError(variant)
       THEN /\ wpc' = [wpc EXCEPT ![w] = "panicked"]
            /\ wg' = wg - 1
            /\ exit' = "panic"
            /\ errMsg' = "Unable to upload file"
       ELSE /\ wpc' = [wpc EXCEPT ![w] = "recv"]
            /\ UNCHANGED <<wg, exit, errMsg>>
    /\ UNCHANGED <<pc, jobChan, closed, nextReq, executed, jobErrs, openFiles,
                   cfgVars, fsVars, siteVars, walkVars, remoteVars, pollVars>>

\* for job := range jobChan: receive a job, or leave the loop when the
\* channel is closed and empty (the deferred wg.Done() runs).
RecvRestMutKeep(ch) == ch

RecvRest(ch) == Tail(ch)

WorkerRecv(w) ==
    /\ Running /\ wpc[w] = "recv"
    /\ IF jobChan # <<>>
       THEN /\ wjob' = [wjob EXCEPT ![w] = Head(jobChan)]
            /\ jobChan' = RecvRest(jobChan)
            /\ retry' = [retry EXCEPT ![w] = NewRetry]
            /\ executed' = executed (+) SetToBag({Head(jobChan)})
            /\ wpc' = [wpc EXCEPT ![w] = "open"]
            /\ UNCHANGED wg
       ELSE /\ closed
            /\ wpc' = [wpc EXCEPT ![w] = "exited"]
            /\ wg' = wg - 1
            /\ UNCHANGED <<wjob, jobChan, retry, executed>>
    /\ UNCHANGED <<closed, nextReq, jobErrs, openFiles, cfgVars, fsVars,
                   mainVars, siteVars, walkVars, remoteVars, pollVars>>

\* The job starts: os.Open(realFilename), then the backoff is built
\* (retry.WithMaxDuration notes the time it is created).
JobOpen(w) ==
    /\ Running /\ wpc[w] = "open"
    /\ \E ok \in BOOLEAN :
         IF ok
         THEN /\ wpc' = [wpc EXCEPT ![w] = "attempt"]
              /\ openFiles' = openFiles + 1
              /\ UNCHANGED <<jobErrs, retry>>
         ELSE /\ retry' = [retry EXCEPT ![w].last = "open"]
              /\ JobReturns(w, TRUE)
              /\ UNCHANGED openFiles
    /\ UNCHANGED <<wjob, wg, jobChan, closed, nextReq, executed, cfgVars, fsVars,
                   mainVars, siteVars, walkVars, remoteVars, pollVars>>

\* strings.Contains(err.Error(), "GOAWAY")
RetryableMutAll(out) == out # "ok"

Retryable(out) == out = "GOAWAY"

\* fibonacciBackoff.Next of retry.NewFibonacci(5s): the sum of the two
\* values of its state, which becomes the state's second value.
FibNextMutDouble(r) == 2 * r.cur

FibNext(r) == r.prev + r.cur

\* retry.WithMaxDuration(90s, backoff).Next at `elapsed` seconds after the
\* backoff was built: stop when no time is left, else the wrapped delay
\* truncated to the time left.
BudgetLeftMutNever(elapsed) == MaxDuration + 1

BudgetLeft(elapsed) == MaxDuration - elapsed

MaxDurationStop(elapsed) == BudgetLeft(elapsed) <= 0
MaxDurationDelay(r, elapsed) == Min(FibNext(r), BudgetLeft(elapsed))

\* WithFileBody(f) makes the file the body of the request, and the HTTP
\* client closes the body of a request when the round trip ends, with or
\* without an error: the job's call number n + 1 of UploadDeployFile closes
\* the file if it is still open, that is in its first call.  The job itself
\* has no f.Close().
BodyClosedMutNever(n) == 0

BodyClosed(n) == IF n = 0 THEN 1 ELSE 0

\* The job opens the file once, before retry.Do, and every call of
\* UploadDeployFile gets the same body: the job's call number n + 1 sends the
\* file's contents in its first call; a later call reads a file that the
\* first call has read and closed, and sends nothing of it.
BodySent(n) == IF n = 0 THEN "full" ELSE "none"

\* One call of UploadDeployFile and what follows it: the return of the job
\* (and of retry.Do), or the backoff's next delay and the start of the sleep.
JobAttempt(w) ==
    /\ Running /\ wpc[w] = "attempt"
    /\ \E out \in Outcomes : \E d \in AttemptTimes : \E stored \in BOOLEAN :
         /\ out = "ok" => stored
         /\ out = "GOAWAY" => ~stored
         \* the remote stores and acknowledges only a body it received
         /\ stored => BodySent(retry[w].attempts) = "full"
         /\ uploaded' = IF stored
                        THEN uploaded \cup
                               {Sha1(fs[FileIndex(wjob[w].realfilename)])}
                        ELSE uploaded
         /\ openFiles' = openFiles - BodyClosed(retry[w].attempts)
         \* only the backoff of retry.Do reads the clock
         /\ HasRetry(variant) \/ d = 0
         /\ LET now == retry[w].elapsed + d
                r == [retry[w] EXCEPT
                        !.attempts = @ + 1, !.last = out, !.elapsed = now,
                        !.sent = BodySent(retry[w].attempts),
                        !.goaways = IF out = "GOAWAY" THEN @ + 1 ELSE @]
            IN  IF out = "ok"
                THEN /\ retry' = [retry EXCEPT ![w] = r]
                     /\ JobReturns(w, FALSE)
                ELSE IF HasRetry(variant) /\ Retryable(out)
                                          /\ ~MaxDurationStop(now)
                THEN /\ retry' = [retry EXCEPT ![w] =
                           [r EXCEPT !.sleep = MaxDurationDelay(r, now),
                                     !.prev = r.cur, !.cur = FibNext(r)]]
                     /\ wpc' = [wpc EXCEPT ![w] = "backoff"]
                     /\ UNCHANGED jobErrs
                ELSE /\ retry' = [retry EXCEPT ![w] = r]
                     /\ JobReturns(w, TRUE)
    /\ UNCHANGED <<remote, created, createdReady, wjob, wg, jobChan, closed, nextReq,
                   executed, cfgVars, fsVars, mainVars, siteVars, walkVars,
                   pollVars>>

\* The timer of retry.Do fires: the next attempt starts.
JobWake(w) ==
    /\ Running /\ wpc[w] = "backoff"
    /\ retry' = [retry EXCEPT ![w].elapsed = @ + retry[w].sleep,
                              ![w].slept = @ + retry[w].sleep,
                              ![w].sleep = 0]
    /\ wpc' = [wpc EXCEPT ![w] = "attempt"]
    /\ UNCHANGED <<wjob, executed, jobErrs, openFiles, poolVars, cfgVars,
                   fsVars, mainVars, siteVars, walkVars, remoteVars, pollVars>>

----------------------------------------------------------------------------
(* Specifications *)

\* the state of the process when main starts
InitProcess ==
    /\ changes = 0
    /\ pc = "flags" /\ exit = "running" /\ errMsg = ""
    /\ page = FirstPage /\ listCalls = <<>> /\ site = NoSite
    /\ walkIdx = 0 /\ filenameToSha = EmptyMap /\ shaToFilename = EmptyMap
    /\ walkErrs = 0
    /\ remote = NoDeploy /\ uploaded = {} /\ created = 0
    /\ createdReady = FALSE
    /\ wantedStatus = "" /\ snapshot = NoDeploy /\ preparedDeploy = NoDeploy
    /\ fetchErrs = 0
    /\ jobChan = <<>> /\ closed = FALSE /\ wg = 0 /\ nextReq = 0
    /\ wpc = <<>> /\ wjob = <<>> /\ retry = <<>>
    /\ executed = EmptyBag /\ jobErrs = 0 /\ openFiles = 0

InitRun ==
    /\ cfgQueueSize \in QueueSizes
    /\ listing \in Listings
    /\ fs \in Directories
    /\ flags \in FlagSets
    /\ InitProcess

\* the current program on a host whose path separator is the slash
Init == variant = "part_000" /\ hostSep = "/" /\ InitRun

\* the current program on any host
InitHosts == variant = "part_000" /\ hostSep \in PathSeparators /\ InitRun

\* every program of the repository
InitAll ==
    /\ variant \in Variants
    /\ hostSep = "/"
    /\ InitRun
    /\ variant = "main_3" => cfgQueueSize = 0

Next ==
    \/ AppRun
    \/ FindSiteIter
    \/ ChangeFile
    \/ WalkRoot
    \/ WalkHashForward
    \/ WalkHashReverse
    \/ WalkReturn
    \/ CreateDeploy
    \/ RemoteAdvance
    \/ GetDeployFetch
    \/ GetDeploySleep
    \/ Spawn
    \/ Produce
    \/ CloseChan
    \/ WgWait
    \/ \E w \in Workers : WorkerRecv(w)
    \/ \E w \in Workers : JobOpen(w)
    \/ \E w \in Workers : JobAttempt(w)
    \/ \E w \in Workers : JobWake(w)
    \/ \E w \in Workers : WorkerCheck(w)

Spec == Init /\ [][Next]_vars

SpecAll == InitAll /\ [][Next]_vars

SpecHosts == InitHosts /\ [][Next]_vars

\* the current program deploying a directory of three files that differ
InitPool ==
    /\ variant = "part_000" /\ hostSep = "/"
    /\ cfgQueueSize \in PoolQueueSizes
    /\ listing = [n |-> 2, match |-> {1, 2}]
    /\ fs = LongDirectory
    /\ flags = GoodFlags
    /\ InitProcess

SpecPool == InitPool /\ [][Next]_vars

\* The goroutines of the program and the remote as processes: the main
\* goroutine runs main and deploy(), each worker runs the loop of its
\* go func().
MainStep ==
    \/ AppRun \/ FindSiteIter
    \/ WalkRoot \/ WalkHashForward \/ WalkHashReverse \/ WalkReturn
    \/ CreateDeploy \/ GetDeployFetch \/ GetDeploySleep
    \/ Spawn \/ Produce \/ CloseChan \/ WgWait
WorkerStep(w) ==
    /\ w \in Workers
    /\ \/ WorkerRecv(w) \/ JobOpen(w) \/ JobAttempt(w)
       \/ JobWake(w) \/ WorkerCheck(w)
\* the largest number of workers a run of the current program starts
MaxWorkers == CHOOSE n \in QueueSizes : \A m \in QueueSizes : m <= n

\* the current program with a token, a site name and a directory, and a
\* site of that name in the listing
InitFair ==
    /\ variant = "part_000" /\ hostSep = "/"
    /\ cfgQueueSize \in QueueSizes
    /\ listing \in {l \in Listings : l.match # {}}
    /\ fs \in Directories
    /\ flags = GoodFlags
    /\ InitProcess

\* The Go scheduler runs every goroutine that can run, and the remote goes
\* on with a deploy it can go on with.
Fairness ==
    /\ WF_vars(MainStep)
    /\ \A w \in 1..MaxWorkers : WF_vars(WorkerStep(w))
    /\ WF_vars(RemoteAdvance)

SpecFair == InitFair /\ [][Next]_vars /\ Fairness

----------------------------------------------------------------------------
(* Claims *)

\* jobs dequeued by a worker whose job() has not returned yet
InFlight == {w \in Workers : wpc[w] \in {"open", "attempt", "backoff"}}
UploadPhase == pc \in {"produce", "wgWait"}
Ended == exit # "running"

\* C1: during the upload phase the number of jobs being executed is at most
\* the queue size, exactly queueSize workers exist, and a worker holds a job
\* exactly while it executes one.
C1_QueueBound ==
    /\ Cardinality(InFlight) <= QueueSize
    /\ UploadPhase => Workers = 1..QueueSize
    /\ \A w \in Workers :
         wjob[w] # NoJob <=>
           wpc[w] \in {"open", "attempt", "backoff", "returned", "failed"}

\* every worker of a pool of two is executing a job
C1_Witness ==
    /\ UploadPhase /\ QueueSize = 2
    /\ Cardinality(InFlight) = 2

\* C2: no job is enqueued or executed before the wait for `prepared` has
\* returned, and the wait for `ready` starts only after the queue is closed
\* and every worker has finished.
C2_PhaseOrder ==
    /\ (Workers # {} \/ jobChan # <<>> \/ executed # EmptyBag) =>
          /\ preparedDeploy # NoDeploy
          /\ preparedDeploy.state \in {"prepared", "ready"}
    /\ wantedStatus = "ready" =>
          /\ closed /\ jobChan = <<>>
          /\ \A w \in Workers : wpc[w] = "exited"
          /\ nextReq = Len(preparedDeploy.required) + 1

\* the second wait runs after two jobs were executed
C2_Witness ==
    /\ wantedStatus = "ready" /\ pc = "getDeploy"
    /\ BagCardinality(executed) = 2

\* the jobs of the first n entries of `required`, as a bag
JobOf(sha) == WrapUploadJob(shaToFilename[sha])
JobsOfRequired(n) ==
    LET req == preparedDeploy.required
        ks == {k \in 1..n : req[k] \in DOMAIN shaToFilename}
        js == {JobOf(req[k]) : k \in ks}
    IN  [j \in js |-> Cardinality({k \in ks : JobOf(req[k]) = j})]

\* C3: workers execute only jobs the producer made from `required`, none
\* twice; when no job failed and the pool has returned, exactly one job was
\* executed for each entry of `required`, for the file and path the reverse
\* map gives for that digest.
C3_ExactlyOnce ==
    /\ preparedDeploy # NoDeploy /\ nextReq > 0 =>
          executed (+) SetToBag(Range(jobChan)) = JobsOfRequired(nextReq - 1)
    /\ wantedStatus = "ready" /\ jobErrs = 0 =>
          executed = JobsOfRequired(Len(preparedDeploy.required))

\* the pool returned after two jobs, none failed
C3_Witness ==
    /\ wantedStatus = "ready" /\ jobErrs = 0
    /\ Len(preparedDeploy.required) = 2
    /\ BagCardinality(executed) = 2

\* C4: getDeploy returns a snapshot only when the state just fetched is the
\* wanted one or `ready`, on the first such fetch; after any other state it
\* sleeps and fetches again, and it ends otherwise only by a fetch error.
C4_Poller ==
    /\ [](pc = "getDeploySleep" =>
            ~(snapshot.state \in {wantedStatus, "ready"}))
    /\ [](pc = "spawn" =>
            /\ preparedDeploy = snapshot
            /\ snapshot.state \in {"prepared", "ready"})
    /\ [](exit = "ok" => snapshot.state = "ready")
    /\ [][pc = "getDeploy" /\ pc' # "getDeploy" =>
            \/ /\ snapshot'.state \in {wantedStatus, "ready"}
               /\ snapshot' = remote
               /\ IF wantedStatus = "prepared" THEN pc' = "spawn"
                  ELSE exit' = "ok"
            \/ /\ ~(snapshot'.state \in {wantedStatus, "ready"})
               /\ snapshot' = remote
               /\ pc' = "getDeploySleep"
            \/ /\ exit' = "error"
               /\ snapshot' = snapshot]_vars
    /\ [][pc = "getDeploySleep" => pc' \in {"getDeploySleep", "getDeploy"}]_vars

\* the wait for `prepared` returned on a snapshot whose state is `ready`
C4_Witness ==
    /\ pc = "spawn" /\ wantedStatus = "prepared"
    /\ preparedDeploy.state = "ready"

\* C5 as stated: a job gives up on GOAWAY only when its backoff delays have
\* used up the 90 seconds (with delays of at most 90 seconds in all, a later
\* success is reached and returned).
C5_Original ==
    \A w \in Workers :
       wpc[w] = "failed" /\ retry[w].last = "GOAWAY" =>
          retry[w].slept >= MaxDuration

\* C5 amended: the 90 seconds run from the moment the job builds its backoff
\* and count the upload attempts as well as the delays: a GOAWAY failure is
\* retried while less than 90 seconds have passed, the job gives up at the
\* first GOAWAY failure at or after 90 seconds, and a successful attempt
\* returns success.
C5_Amended ==
    \A w \in Workers :
       /\ wpc[w] = "failed" /\ retry[w].last = "GOAWAY" =>
             retry[w].elapsed >= MaxDuration
       /\ wpc[w] = "backoff" =>
             /\ retry[w].last = "GOAWAY"
             /\ retry[w].elapsed < MaxDuration
             /\ retry[w].sleep > 0
             /\ retry[w].elapsed + retry[w].sleep <= MaxDuration
       /\ wpc[w] = "returned" <=> retry[w].last = "ok"
       /\ retry[w].slept <= MaxDuration

\* a job gives up after two attempts of 60 seconds that failed with GOAWAY
\* and one delay of 5 seconds
C5_Witness ==
    \E w \in Workers :
       /\ wpc[w] = "failed" /\ retry[w].last = "GOAWAY"
       /\ retry[w].goaways = 2 /\ retry[w].slept = BackoffBase
       /\ retry[w].elapsed >= MaxDuration

\* C6: a failure without GOAWAY is returned at once, so it is the last
\* attempt of its job and the only one when no GOAWAY preceded it; a further
\* attempt follows only an attempt that failed with GOAWAY.
C6_NoRetryOther ==
    \A w \in Workers :
       /\ retry[w].last = "other" =>
             /\ wpc[w] = "failed"
             /\ retry[w].attempts = retry[w].goaways + 1
       /\ wpc[w] \in {"attempt", "backoff"} /\ retry[w].attempts > 0 =>
             /\ retry[w].last = "GOAWAY"
             /\ retry[w].attempts = retry[w].goaways

\* a job failed on its first attempt with an error that is not GOAWAY
C6_Witness ==
    \E w \in Workers :
       /\ wpc[w] = "failed" /\ retry[w].last = "other"
       /\ retry[w].attempts = 1

\* C7: a run in which an upload job returned an error never reports success.
C7_AllOrNothing == exit = "ok" => jobErrs = 0

\* C8: after a job failed the others are cancelled and the pool returns that
\* failure: the workers drain and exit and the run ends with a returned
\* error.
C8_FailureReturned ==
    jobErrs > 0 /\ Ended =>
       /\ exit = "error"
       /\ \A w \in Workers : wpc[w] = "exited"

UnknownRequired ==
    /\ preparedDeploy # NoDeploy
    /\ \E k \in 1..Len(preparedDeploy.required) :
          preparedDeploy.required[k] \notin DOMAIN shaToFilename

\* C9: a run whose `required` holds a digest the reverse map does not have
\* ends with an error the orchestrator returns, not with a crash.
C9_UnknownDigestError ==
    UnknownRequired /\ Ended /\ jobErrs = 0 => exit = "error"

\* the first position of the listing whose site has the wanted name
FirstMatch(l) == CHOOSE i \in l.match : \A j \in l.match : i <= j
PageOf(i) == FirstPage + ((i - 1) \div PerPage)

\* C10: findSite requests pages 1, 2, 3, ... with per_page 25, each once;
\* the site it returns is the first of the listing with the wanted name, and
\* the page holding it is the last page requested.
C10_FindOrder ==
    /\ \A k \in 1..Len(listCalls) :
          listCalls[k] = [page |-> FirstPage + k - 1, per_page |-> PerPage]
    /\ site # NoSite =>
          /\ listing.match # {}
          /\ site = SiteAt(listing, FirstMatch(listing))
          /\ site.name = SiteName
          /\ listCalls[Len(listCalls)].page = PageOf(site.id)

\* the site was found on the second page, which holds two sites of that name
C10_Witness ==
    /\ site # NoSite
    /\ Len(listCalls) = 2
    /\ Cardinality(listing.match) = 2

\* the pages findSite got back without an error that held no site
EmptyPagesSeen ==
    {k \in 1..Len(listCalls) :
        /\ (k = Len(listCalls) => errMsg # "Unable to find the site")
        /\ Len(ListSitesPayload(listing, listCalls[k].page, PerPage)) = 0}

\* C11: findSite stops at the first page that holds no site: it requests no
\* page after an empty one, and when no site of the listing has the wanted
\* name it has returned "not found" once an empty page came back.
C11_StopsAtEmptyPage ==
    \A k \in EmptyPagesSeen :
       /\ k = Len(listCalls)
       /\ errMsg = "No site found"

\* findSite got nil, nil back: no site, and no error from ListSites
NotFound ==
    /\ listCalls # <<>>
    /\ pc # "findSite"
    /\ site = NoSite
    /\ errMsg # "Unable to find the site"

\* C12: when findSite returns no site the run fails with "No site found" and
\* no deploy is created, none is fetched and no file is uploaded.
C12_NotFoundFails ==
    NotFound =>
       /\ exit = "error" /\ errMsg = "No site found"
       /\ created = 0 /\ remote = NoDeploy
       /\ wantedStatus = "" /\ snapshot = NoDeploy
       /\ executed = EmptyBag /\ uploaded = {}

\* not found after two pages that held sites of other names
C12_Witness == NotFound /\ Len(listCalls) = 3

\* filesInDirectory has returned its two maps to deploy()
WalkReturned ==
    /\ pc \notin {"flags", "findSite", "walkRoot", "walkFile", "walkFile2"}
    /\ walkIdx > Len(fs)

\* C13: after the walk every digest the forward map holds is a key of the
\* reverse map, and the path the reverse map stores for it maps to that
\* digest in the forward map, whatever other processes did to the files
\* during the walk.
C13_MapsAgree ==
    WalkReturned =>
       \A d \in Range(filenameToSha) :
          /\ d \in DOMAIN shaToFilename
          /\ shaToFilename[d].uri \in DOMAIN filenameToSha
          /\ filenameToSha[shaToFilename[d].uri] = d

\* "/" followed by the file's path relative to the root, slash-separated
SlashKey(i) == "/" \o JoinPath(FileNames[i], "/")

\* C14: on every host each key of the forward map is "/" followed by the
\* file's relative path with forward slashes as the only separators.
C14_SlashKeys ==
    \A k \in DOMAIN filenameToSha :
       \E i \in 1..Len(FileNames) : k = SlashKey(i)

\* workers whose job has opened its file and has not returned
JobsHoldingFile == {w \in Workers : wpc[w] \in {"attempt", "backoff"}}

ConfigError == \E f \in DOMAIN flags : flags[f] = ""

\* C16: a run whose configuration lacks the token, the site name or the
\* directory fails without a network call: no ListSites, no
\* CreateSiteDeploy, no GetDeploy and no UploadDeployFile is issued.
C16_FailsBeforeNetwork ==
    ConfigError =>
       /\ exit # "ok"
       /\ listCalls = <<>> /\ created = 0
       /\ snapshot = NoDeploy /\ executed = EmptyBag

\* C17: a GetDeploy call that fails ends the wait and the run at once: the
\* run has failed, it takes no further step (no sleep, no second fetch), a
\* failure in the wait for "prepared" leaves the run without any upload job,
\* and a failure in the wait for "ready" leaves it without a report of
\* success.
C17_FetchErrorFatal ==
    /\ [](fetchErrs > 0 =>
            /\ fetchErrs = 1
            /\ pc = "exited" /\ exit = "error"
            /\ wantedStatus = "prepared" =>
                  /\ nextReq = 0 /\ jobChan = <<>>
                  /\ wpc = <<>> /\ executed = EmptyBag)
    /\ [][fetchErrs = 0]_vars

\* the fetch failed in the wait for "ready", after a file was uploaded
C17_Witness ==
    /\ fetchErrs = 1
    /\ wantedStatus = "ready"
    /\ uploaded # {}

\* C18: a run whose CreateSiteDeploy payload is already "ready" goes on: it
\* calls getDeploy(deployID, "prepared"), which returns at its first fetch
\* without a sleep, runs the worker pool over the Required of the deploy
\* that call returned, calls getDeploy(deployID, "ready"), and only then
\* reports success.
C18_ReadyAtCreate ==
    /\ [](createdReady =>
            /\ pc # "getDeploySleep"
            /\ pc \in {"spawn", "produce", "wgWait"} =>
                  /\ wantedStatus = "prepared"
                  /\ preparedDeploy = snapshot
                  /\ preparedDeploy.state = "ready"
            /\ exit = "ok" =>
                  /\ wantedStatus = "ready" /\ snapshot.state = "ready"
                  /\ preparedDeploy.state = "ready"
                  /\ nextReq = Len(preparedDeploy.required) + 1
                  /\ closed /\ wg = 0
                  /\ Len(wpc) = QueueSize
                  /\ \A w \in Workers : wpc[w] = "exited")
    /\ [][~createdReady /\ createdReady' =>
            /\ pc' = "getDeploy" /\ wantedStatus' = "prepared"
            /\ exit' = "running"]_vars

\* success reported by a run whose deploy was "ready" when it was created
C18_Witness ==
    /\ createdReady
    /\ exit = "ok"
    /\ QueueSize = 2

\* every worker is executing a job
AllBusy == Workers # {} /\ InFlight = Workers
\* jobs sent to the channel whose execution has not ended
Pending == Len(jobChan) + Cardinality(InFlight)

\* C19 as stated: the channel's capacity is the number of workers, the
\* producer enqueues no job while every worker is executing one, and the
\* number of jobs created and not completed is bounded whatever the length
\* of Required.
C19_Original ==
    /\ [](UploadPhase => Len(wpc) = QueueSize /\ Len(jobChan) <= QueueSize)
    /\ [][AllBusy => Len(jobChan') <= Len(jobChan)]_vars
    /\ [](Pending <= 2 * QueueSize)

\* C19 amended: the channel's capacity is the number of workers; the
\* producer enqueues no job while the channel holds QueueSize jobs, which
\* it can come to hold while every worker is executing a job; the jobs in
\* the channel or being executed are at most twice QueueSize whatever the
\* length of Required.
C19_Amended ==
    /\ [](UploadPhase => Len(wpc) = QueueSize /\ Len(jobChan) <= QueueSize)
    /\ [][Len(jobChan) >= QueueSize => Len(jobChan') <= Len(jobChan)]_vars
    /\ [](Pending <= 2 * QueueSize)

\* one worker, three required digests: the worker executes the first job,
\* the second is in the channel and the producer waits to send the third
C19_Witness ==
    /\ QueueSize = 1
    /\ Len(preparedDeploy.required) = 3
    /\ AllBusy
    /\ Len(jobChan) = QueueSize
    /\ pc = "produce" /\ nextReq = 3

\* C20: a root directory that cannot be opened, or a file that cannot be
\* opened or read when it is hashed, ends the walk and the run with a
\* failure that is reported (the returned error "Unable to walk directory",
\* or the panic of mustGetSha1), and no CreateSiteDeploy request is made.
C20_WalkFailureFatal ==
    walkErrs > 0 =>
       /\ walkErrs = 1
       /\ pc = "exited" /\ exit \in {"error", "panic"}
       /\ errMsg \in {"Unable to walk directory",
                      "Unable to open file to sha it"}
       /\ created = 0 /\ remote = NoDeploy

\* the second hash of the second file failed
C20_Witness ==
    /\ walkErrs = 1
    /\ exit = "panic"
    /\ walkIdx = 2
    /\ Key(walkIdx) \in DOMAIN filenameToSha

\* 5, 5, 10, 15, 25, 40, 65, ...: the k-th delay of the sequence as stated
RECURSIVE StatedDelay(_)
StatedDelay(k) ==
    IF k <= 2 THEN BackoffBase ELSE StatedDelay(k - 1) + StatedDelay(k - 2)

\* 5, 10, 15, 25, 40, 65, ...: the k-th delay of the sequence the jobs sleep
RECURSIVE SleptDelay(_)
SleptDelay(k) ==
    IF k = 1 THEN BackoffBase
    ELSE IF k = 2 THEN 2 * BackoffBase
    ELSE SleptDelay(k - 1) + SleptDelay(k - 2)

\* worker w's job starts the sleep that follows a failed attempt
StartsSleep(w) == wpc[w] = "attempt" /\ w \in DOMAIN wpc' /\ wpc'[w] = "backoff"
\* worker w's job starts an attempt after a sleep
StartsRetry(w) == wpc[w] = "backoff" /\ w \in DOMAIN wpc' /\ wpc'[w] = "attempt"

\* C21 as stated: the k-th delay of a job is the k-th of 5, 5, 10, 15, 25,
\* 40, 65, ... cut down so that the delays of the job sum to at most 90
\* seconds, and no attempt starts once they sum to 90 seconds.
C21_Original ==
    /\ [][\A w \in Workers : StartsSleep(w) =>
            retry'[w].sleep = Min(StatedDelay(retry'[w].goaways),
                                  MaxDuration - retry[w].slept)]_vars
    /\ [](\A w \in Workers : retry[w].slept + retry[w].sleep <= MaxDuration)
    /\ [][\A w \in Workers : StartsRetry(w) =>
            retry'[w].slept < MaxDuration]_vars

\* C21 amended: the k-th delay of a job is the k-th of 5, 10, 15, 25, 40,
\* 65, ... cut down to the time left of the 90 seconds that run from the
\* moment the job built its backoff (attempts included), so the delays sum
\* to at most 90 seconds; no sleep starts once the 90 seconds have passed,
\* and the attempt that follows the last sleep is still made.
C21_Amended ==
    /\ [][\A w \in Workers : StartsSleep(w) =>
            /\ retry'[w].elapsed < MaxDuration
            /\ retry'[w].sleep = Min(SleptDelay(retry'[w].goaways),
                                     MaxDuration - retry'[w].elapsed)]_vars
    /\ [](\A w \in Workers : retry[w].slept + retry[w].sleep <= MaxDuration)
    /\ [][\A w \in Workers : StartsRetry(w) =>
            /\ retry'[w].slept = retry[w].slept + retry[w].sleep
            /\ retry'[w].attempts = retry'[w].goaways]_vars

\* a job sleeps its fifth delay, cut down from 40 to the 35 seconds left
C21_Witness ==
    \E w \in Workers :
       /\ wpc[w] = "backoff"
       /\ retry[w].goaways = 5
       /\ retry[w].sleep = 35 /\ retry[w].slept = 55

\* C23: every attempt of a job, the retries after GOAWAY included, sends the
\* whole contents of the file.
C23_FullBodyEachAttempt ==
    \A w \in Workers : retry[w].attempts > 0 => retry[w].sent = "full"

\* a step of the producer, of the wait on the pool or of a worker
PoolStep ==
    \/ Produce \/ CloseChan \/ WgWait
    \/ \E w \in Workers :
          \/ WorkerRecv(w) \/ JobOpen(w) \/ JobAttempt(w)
          \/ JobWake(w) \/ WorkerCheck(w)

\* C22: the upload phase never deadlocks, whatever the queue size (0
\* included) and the length of Required: until the wait on the pool has
\* returned, the producer, the wait or some worker can take a step.
C22_NoDeadlock == Running /\ UploadPhase => ENABLED PoolStep

\* the environment has cooperated so far: every request got an answer
\* without an error, the root and the files could be read and no other
\* process changed them, every file could be opened and uploaded, and the
\* remote requires only digests of the reverse map
Cooperates ==
    /\ listing.match # {}
    /\ changes = 0
    /\ errMsg \notin {"Unable to find the site", "Unable to create deploy"}
    /\ walkErrs = 0 /\ fetchErrs = 0 /\ jobErrs = 0
    /\ \A w \in Workers : retry[w].last \in {"", "ok"}
    /\ WalkReturned =>
          \A k \in 1..Len(remote.required) :
             remote.required[k] \in DOMAIN shaToFilename

\* C24: a run in which the environment cooperates reports success in the
\* end, under fair scheduling of the goroutines, and has then made exactly
\* one CreateSiteDeploy call.
C24_EventuallySucceeds ==
    /\ <>(~Cooperates \/ exit = "ok")
    /\ [](exit = "ok" => created = 1)

====
